---- MODULE Spec2Model ----
(***************************************************************************)
(* A model of plex-music-rating-sync: TrackPair (src/sync_pair.py), the    *)
(* rating part of the two players (src/MediaPlayer.py) and the run of      *)
(* PlexSync.sync_tracks (src/sync_ratings.py).                             *)
(*                                                                         *)
(* Direction: the default one, options.reverse = False, so the source      *)
(* player is MediaMonkey and the destination player is PlexPlayer.         *)
(*                                                                         *)
(* Representation.                                                         *)
(*  - A normalized rating (a float in [0, 1]) is kept in tenths, so 0.5 is *)
(*    5; a native MediaMonkey rating is in 0..100 (-1 = unrated), a native *)
(*    Plex rating in 0..10.                                                *)
(*  - An optional value is a set: {} is Python's None, {v} is the value v. *)
(*  - A string is a sequence of one-character strings.                     *)
(*  - A similarity score is kept as the SUM of its four sub-scores, that   *)
(*    is four times the np.average the code computes; comparisons with     *)
(*    the threshold and with 100 are scaled by four accordingly.           *)
(*  - The result of a backend query (search_tracks) is an input of the     *)
(*    step that issues it.                                                 *)
(***************************************************************************)
EXTENDS Integers, Sequences, FiniteSets, TLC

\* ------------------------------------------------------------------ bounds
MaxPairs == 2
MaxCandidates == 2
MaxRetries == 1

\* --------------------------------------------------------------- constants
MatchThreshold == 30

MediaMonkeyName == "MediaMonkey"
PlexPlayerName == "PlexPlayer"

\* MediaPlayer.rating_maximum of each player class
rating_maximum(player) ==
  IF player = MediaMonkeyName THEN 100 ELSE 10

\* MediaPlayer.album_empty_alias of each player class
album_empty_alias(player) ==
  IF player = MediaMonkeyName
    THEN <<>>
    ELSE <<"[", "U", "n", "k", "n", "o", "w", "n", " ", "A", "l", "b", "u", "m", "]">>

\* ------------------------------------------------------ the two libraries
MMTracks == {"m1", "m2"}
PlexTracks == {"p1", "p2", "p3"}

\* native ratings a MediaMonkey song can carry (-1 is MediaMonkey's unrated)
MMNativeRatings == {-1, 0, 50}
\* userRating of a Plex track: absent, or a native value
PlexNativeRatings == {{}, {0}, {5}, {8}}

title(id) ==
  CASE id = "m1" -> <<"a", "b">>
    [] id = "m2" -> <<"c", "d">>
    [] id = "p1" -> <<"a", "b">>
    [] id = "p2" -> <<"a", "b">>
    [] id = "p3" -> <<"c", "d">>

artist(id) ==
  CASE id = "m1" -> <<"x">>
    [] id = "m2" -> <<"x", "y">>
    [] id = "p1" -> <<"x">>
    [] id = "p2" -> <<"x">>
    [] id = "p3" -> <<"x", "y">>

album(id) ==
  CASE id = "m1" -> <<"k">>
    [] id = "m2" -> <<>>
    [] id = "p1" -> <<"k">>
    [] id = "p2" -> <<"k">>
    [] id = "p3" -> album_empty_alias(PlexPlayerName)

\* source.track of an AudioTag, candidate.index of a Plex track
track(id) ==
  CASE id = "m1" -> {1}
    [] id = "m2" -> {}
    [] id = "p1" -> {1}
    [] id = "p2" -> {1}
    [] id = "p3" -> {}

\* ---------------------------------------------------------- pure helpers
Max(a, b) == IF a >= b THEN a ELSE b

RECURSIVE LCS(_, _)
LCS(s, t) ==
  IF s = <<>> \/ t = <<>> THEN 0
  ELSE IF Head(s) = Head(t) THEN 1 + LCS(Tail(s), Tail(t))
  ELSE Max(LCS(Tail(s), t), LCS(s, Tail(t)))

\* int(round(x)) for x = n / d, Python's round-half-to-even
intr(n, d) ==
  LET q == n \div d
      r == n % d
  IN  IF 2 * r < d THEN q
      ELSE IF 2 * r > d THEN q + 1
      ELSE IF q % 2 = 0 THEN q ELSE q + 1

\* fuzz.ratio(s1, s2): 100 * 2 * M / T, rounded; 0 when either string is empty
ratio(s1, s2) ==
  IF Len(s1) = 0 \/ Len(s2) = 0 THEN 0
  ELSE intr(200 * LCS(s1, s2), Len(s1) + Len(s2))

\* MediaPlayer.album_empty
album_empty(player, alb) == alb = album_empty_alias(player)

\* The result of get_normed_rating(rating) when it returns, in tenths
get_normed_rating(player, rating) ==
  ((IF rating < 0 THEN 0 ELSE rating) * 10) \div rating_maximum(player)

\* get_native_rating(normed_rating), normed_rating in tenths
get_native_rating(player, normed_rating) ==
  (normed_rating * rating_maximum(player)) \div 10

\* ------------------------------------------------------------ track objects
\* Python's None where a track is expected
NoTrack == [ID |-> "None", rating |-> {}]

\* MediaMonkey.read_track_metadata: the AudioTag of a song; rating normalized
read_track_metadata(id, native) ==
  [ID |-> id, rating |-> {get_normed_rating(MediaMonkeyName, native)}]

\* a plexapi Track as a search returns it: rating is its userRating
plex_track(id, userRating) == [ID |-> id, rating |-> userRating]

\* ------------------------------------------------------------- TrackPair
\* TrackPair.__init__ with the class attributes of SyncPair and TrackPair
TrackPair(source_player, destination_player, source_track) ==
  [source |-> source_track,
   source_player |-> source_player,
   destination_player |-> destination_player,
   destination |-> NoTrack,
   rating_source |-> 0,
   rating_destination |-> 0,
   sync_state |-> "UNKNOWN"]

both_albums_empty(pair, destination) ==
  /\ album_empty(pair.source_player, album(pair.source.ID))
  /\ album_empty(pair.destination_player, album(destination.ID))

albums_similarity(pair, destination) ==
  IF both_albums_empty(pair, destination) THEN 100
  ELSE ratio(album(pair.source.ID), album(destination.ID))

\* the track-number sub-score: source.track == candidate.index (or .track)
track_score(pair, candidate) ==
  IF track(pair.source.ID) = track(candidate.ID) THEN 100 ELSE 0

\* TrackPair.similarity: the sum of the four sub-scores (4 * np.average)
similarity(pair, candidate) ==
  ratio(title(pair.source.ID), title(candidate.ID))
  + ratio(artist(pair.source.ID), artist(candidate.ID))
  + track_score(pair, candidate)
  + albums_similarity(pair, candidate)

\* scores = np.array([self.similarity(candidate) for candidate in candidates])
Scores(pair, candidates) ==
  [k \in 1..Len(candidates) |-> similarity(pair, candidates[k])]

\* The values scores.argsort()[-1] can take: an index of a maximal score.
\* np.argsort's default kind is not stable, so among equal maxima any index
\* can come last.
RanksLastMin(scores) ==
  {k \in DOMAIN scores : \A j \in DOMAIN scores : scores[k] <= scores[j]}

RanksLast(scores) ==
  {k \in DOMAIN scores : \A j \in DOMAIN scores : scores[j] <= scores[k]}

\* line 106: if score < match_threshold (score as a sum of four)
BelowThresholdOff(score, match_threshold) == FALSE

BelowThreshold(score, match_threshold) == score < 4 * match_threshold

\* lines 130-135: the state of an accepted pair
Classify(rating_source, rating_destination) ==
  IF rating_source = rating_destination THEN "UP_TO_DATE"
  ELSE IF rating_source = 0 \/ rating_destination = 0 THEN "NEEDS_UPDATE"
  ELSE IF rating_source # rating_destination THEN "CONFLICTING"
  ELSE "UNKNOWN"

\* lines 99-102: no candidates
match_emptyAccept(pair) ==
  [pair |-> [pair EXCEPT !.sync_state = "UP_TO_DATE"], ret |-> 0, raised |-> "none"]

match_empty(pair) ==
  [pair |-> [pair EXCEPT !.sync_state = "ERROR"], ret |-> 0, raised |-> "none"]

\* TrackPair.match(candidates, match_threshold); last is the value of
\* ranks[-1], one of RanksLast(scores).  ret is the returned score (a sum of
\* four), raised the exception that leaves match, "none" when it returns.
match(pair, candidates, last, match_threshold) ==
  IF pair.source = NoTrack
    THEN [pair |-> pair, ret |-> 0, raised |-> "RuntimeError"]
  ELSE IF Len(candidates) = 0
    THEN match_empty(pair)
  ELSE
    LET score == Scores(pair, candidates)[last]
        accepted == [pair EXCEPT !.destination = candidates[last],
                                 !.rating_source = CHOOSE r \in pair.source.rating : TRUE]
    IN  IF BelowThreshold(score, match_threshold)
          THEN [pair |-> [pair EXCEPT !.sync_state = "ERROR"], ret |-> score, raised |-> "none"]
        ELSE IF pair.destination_player = PlexPlayerName /\ candidates[last].rating = {}
          \* get_normed_rating(None): None < 0 is a TypeError
          THEN [pair |-> accepted, ret |-> 0, raised |-> "TypeError"]
        ELSE
          LET rd == IF pair.destination_player = PlexPlayerName
                      THEN get_normed_rating(PlexPlayerName,
                                             CHOOSE r \in candidates[last].rating : TRUE)
                      ELSE CHOOSE r \in candidates[last].rating : TRUE
              rated == [accepted EXCEPT !.rating_destination = rd]
          IN  [pair |-> [rated EXCEPT !.sync_state = Classify(rated.rating_source, rd)],
               ret |-> score, raised |-> "none"]

\* lines 174-180 of sync_ratings.py: reverse source and destination assignment
swap_rolesReset(pair) ==
  [pair EXCEPT !.source = pair.destination,
               !.source_player = pair.destination_player,
               !.rating_source = pair.rating_destination,
               !.destination = pair.source,
               !.destination_player = pair.source_player,
               !.rating_destination = pair.rating_source,
               !.sync_state = "UNKNOWN"]

swap_roles(pair) ==
  [pair EXCEPT !.source = pair.destination,
               !.source_player = pair.destination_player,
               !.rating_source = pair.rating_destination,
               !.destination = pair.source,
               !.destination_player = pair.source_player,
               !.rating_destination = pair.rating_source]

\* one call player.update_rating(track, rating)
Call(player, trk, rating) == [player |-> player, track |-> trk.ID, rating |-> rating]

\* TrackPair.sync(force): the update_rating calls it makes and what it returns
syncIgnoresForce(pair, force) ==
  IF pair.rating_destination <= 0
    THEN [calls |-> <<Call(pair.destination_player, pair.destination, pair.rating_source)>>,
          ret |-> TRUE]
    ELSE [calls |-> <<>>, ret |-> FALSE]

sync(pair, force) ==
  IF pair.rating_destination <= 0 \/ force
    THEN [calls |-> <<Call(pair.destination_player, pair.destination, pair.rating_source)>>,
          ret |-> TRUE]
    ELSE [calls |-> <<>>, ret |-> FALSE]

\* lines 168-173: int(new_rating) / 10 is computed and lies in [0, 1].
\* new_rating is the text typed: {} when it is not an integer, {n} otherwise
new_rating_validClamped(new_rating) ==
  new_rating # {}

new_rating_valid(new_rating) ==
  /\ new_rating # {}
  /\ LET n == CHOOSE v \in new_rating : TRUE
     IN  ~(n < 0) /\ ~(n > 10)

\* line 169: int(new_rating) / 10, in tenths
entered_rating(new_rating) == CHOOSE v \in new_rating : TRUE

\* TrackPair.resolve_conflict for one answer to its prompt: the update_rating
\* calls made and the outcome: "True", "False", or "again" (choose = True)
resolve_conflictCancelContinues(pair, choice, new_rating) ==
  CASE choice = "1" ->
         [calls |-> <<Call(pair.destination_player, pair.destination, pair.rating_source)>>,
          ret |-> "True"]
    [] choice = "2" ->
         [calls |-> <<Call(pair.source_player, pair.source, pair.rating_destination)>>,
          ret |-> "True"]
    [] choice = "3" ->
         IF new_rating_valid(new_rating)
           THEN [calls |-> <<Call(pair.destination_player, pair.destination,
                                  entered_rating(new_rating)),
                             Call(pair.source_player, pair.source,
                                  entered_rating(new_rating))>>,
                 ret |-> "True"]
           ELSE [calls |-> <<>>, ret |-> "again"]
    [] choice = "4" -> [calls |-> <<>>, ret |-> "True"]
    [] choice = "5" -> [calls |-> <<>>, ret |-> "True"]
    [] OTHER -> [calls |-> <<>>, ret |-> "again"]

resolve_conflict(pair, choice, new_rating) ==
  CASE choice = "1" ->
         [calls |-> <<Call(pair.destination_player, pair.destination, pair.rating_source)>>,
          ret |-> "True"]
    [] choice = "2" ->
         [calls |-> <<Call(pair.source_player, pair.source, pair.rating_destination)>>,
          ret |-> "True"]
    [] choice = "3" ->
         IF new_rating_valid(new_rating)
           THEN [calls |-> <<Call(pair.destination_player, pair.destination,
                                  entered_rating(new_rating)),
                             Call(pair.source_player, pair.source,
                                  entered_rating(new_rating))>>,
                 ret |-> "True"]
           ELSE [calls |-> <<>>, ret |-> "again"]
    [] choice = "4" -> [calls |-> <<>>, ret |-> "True"]
    [] choice = "5" -> [calls |-> <<>>, ret |-> "False"]
    [] OTHER -> [calls |-> <<>>, ret |-> "again"]

\* ------------------------------------------------------------- the players
\* MediaMonkey.update_rating / PlexPlayer.update_rating on the libraries
update_ratingAlways(lib, call, dry) ==
  [lib EXCEPT ![call.player][call.track] =
     IF call.player = MediaMonkeyName
       THEN get_native_rating(MediaMonkeyName, call.rating)
       ELSE {get_native_rating(PlexPlayerName, call.rating)}]

update_rating(lib, call, dry) ==
  IF dry THEN lib
  ELSE [lib EXCEPT ![call.player][call.track] =
          IF call.player = MediaMonkeyName
            THEN get_native_rating(MediaMonkeyName, call.rating)
            ELSE {get_native_rating(PlexPlayerName, call.rating)}]

\* the calls of one step, in order
RECURSIVE update_ratings(_, _, _)
update_ratings(lib, cs, dry) ==
  IF cs = <<>> THEN lib
  ELSE update_ratings(update_rating(lib, Head(cs), dry), Tail(cs), dry)

\* ------------------------------------------------------------------ state
VARIABLES
  dry_run,            \* options.dry, copied to both players' dry_run
  library,            \* the native ratings stored by each player
  library0,           \* the libraries at the start of the run (history)
  playlists,          \* the playlists of the Plex server: title -> tracks
  playlists0,         \* the playlists at the start of the run (history)
  sync_pairs,         \* sync_tracks: the TrackPair objects
  pairs_need_update,  \* sync_tracks: positions in sync_pairs
  pairs_conflicting,  \* sync_tracks: positions in sync_pairs
  matched,            \* sync_tracks: the counter of line 137
  pc,                 \* where the run is
  idx,                \* position of the running for loop in its list
  candidates,         \* the candidates of the last match() call (history)
  returned,           \* what each match() call returned, in order (history)
  calls,              \* every update_rating call made, in order (history)
  answer,             \* the last answer read by input() (history)
  retries,            \* number of answers that led to a new prompt
  raised              \* the exception that ended the run, "none" otherwise

vars == <<dry_run, library, library0, playlists, playlists0, sync_pairs,
          pairs_need_update, pairs_conflicting, matched, pc, idx,
          candidates, returned, calls, answer, retries, raised>>

\* sequences without repetition over S, of length at most n
DistinctSeqs(S, n) ==
  {s \in UNION {[1..k -> S] : k \in 0..n} :
     \A i, j \in DOMAIN s : i # j => s[i] # s[j]}

\* the positions of the pairs in the given state, in list order
RECURSIVE PositionsFrom(_, _, _)
PositionsFrom(ps, state, k) ==
  IF k > Len(ps) THEN <<>>
  ELSE IF ps[k].sync_state = state
    THEN <<k>> \o PositionsFrom(ps, state, k + 1)
    ELSE PositionsFrom(ps, state, k + 1)

RECURSIVE PositionsAlsoError(_, _)
PositionsAlsoError(ps, state) ==
  IF Len(ps) = 0 THEN <<>>
  ELSE LET front == PositionsAlsoError(SubSeq(ps, 1, Len(ps) - 1), state)
       IN  IF ps[Len(ps)].sync_state \in {state, "ERROR"}
             THEN Append(front, Len(ps))
             ELSE front

Positions(ps, state) == PositionsFrom(ps, state, 1)

PlaylistTitles == {"L"}

NoAnswer == [choice |-> "", new_rating |-> {}]

\* the state after PlexSync.__init__ and the players' connect()
Init ==
  /\ dry_run \in BOOLEAN
  /\ library \in {[p \in {MediaMonkeyName, PlexPlayerName} |->
                      IF p = MediaMonkeyName THEN mm ELSE px] :
                   mm \in [MMTracks -> MMNativeRatings],
                   px \in [PlexTracks -> PlexNativeRatings]}
  /\ library0 = library
  /\ playlists = [t \in PlaylistTitles |-> {{"p1"}}]
  /\ playlists0 = playlists
  /\ sync_pairs = <<>>
  /\ pairs_need_update = <<>>
  /\ pairs_conflicting = <<>>
  /\ matched = 0
  /\ pc = "start"
  /\ idx = 0
  /\ candidates = <<>>
  /\ returned = <<>>
  /\ calls = <<>>
  /\ answer = NoAnswer
  /\ retries = 0
  /\ raised = "none"

\* kwargs.get(name): the value of a keyword argument, {} when it is not given
Get(kwargs, name) == IF name \in DOMAIN kwargs THEN {kwargs[name]} ELSE {}

\* the keyword arguments sync_tracks passes to the source's search_tracks
SyncTracksKwargs == [key |-> "rating", value |-> TRUE]

\* MediaMonkey.search_tracks, lines 206-216: the query handed to QuerySongs,
\* {} for None.  Only the keywords title, rating and query are read.
mm_query(kwargs) ==
  LET titleArg == Get(kwargs, "title")
      rating == Get(kwargs, "rating") = {TRUE}
  IN  IF titleArg # {}
        THEN {[kind |-> "SongTitle", title |-> CHOOSE t \in titleArg : TRUE]}
      ELSE IF rating
        THEN {[kind |-> "Rating > 0"]}
      ELSE {[kind |-> "query"] : q \in Get(kwargs, "query")}

\* QuerySongs(query) over the songs db of the database, in database order:
\* without a query every song is returned.  A query string supplied by the
\* caller is not interpreted.
QuerySongs(db, ratings, query) ==
  SelectSeq(db, LAMBDA id :
                  \A q \in query :
                    /\ q.kind = "Rating > 0" => ratings[id] > 0
                    /\ q.kind = "SongTitle" => title(id) = q.title)

\* ---------------------------------------------------------------- actions
\* sync_tracks, lines 132-137: read the source tracks and build the pairs.
\* The songs of the MediaMonkey database are an input.
search_tracks ==
  /\ pc = "start"
  /\ \E db \in DistinctSeqs(MMTracks, MaxPairs) :
       LET tracks == QuerySongs(db, library[MediaMonkeyName],
                                mm_query(SyncTracksKwargs))
       IN  sync_pairs' = [k \in 1..Len(tracks) |->
                            TrackPair(MediaMonkeyName, PlexPlayerName,
                                      read_track_metadata(tracks[k],
                                                          library[MediaMonkeyName][tracks[k]]))]
  /\ matched' = 0
  /\ pc' = "match"
  /\ idx' = 1
  /\ UNCHANGED <<candidates, dry_run, library, library0, playlists, playlists0,
                 pairs_need_update, pairs_conflicting, returned, calls,
                 answer, retries, raised>>

\* sync_tracks, lines 138-140: pair.match() for the next pair.  The tracks
\* the destination's title search returns are an input.
match_pair ==
  /\ pc = "match"
  /\ idx <= Len(sync_pairs)
  /\ \E ids \in DistinctSeqs(PlexTracks, MaxCandidates) :
       LET pair == sync_pairs[idx]
           found == [k \in 1..Len(ids) |->
                       plex_track(ids[k], library[PlexPlayerName][ids[k]])]
           choices == IF pair.source = NoTrack \/ Len(found) = 0
                        THEN {0}
                        ELSE RanksLast(Scores(pair, found))
       IN  \E last \in choices :
             LET r == match(pair, found, last, MatchThreshold)
             IN  /\ candidates' = found
                 /\ sync_pairs' = [sync_pairs EXCEPT ![idx] = r.pair]
                 /\ IF r.raised # "none"
                      THEN /\ pc' = "crashed"
                           /\ raised' = r.raised
                           /\ UNCHANGED <<matched, returned, idx>>
                      ELSE /\ matched' = IF r.ret # 0 THEN matched + 1 ELSE matched
                           /\ returned' = Append(returned, r.ret)
                           /\ idx' = idx + 1
                           /\ UNCHANGED <<pc, raised>>
  /\ UNCHANGED <<dry_run, library, library0, playlists, playlists0,
                 pairs_need_update, pairs_conflicting, calls, answer, retries>>

\* sync_tracks, lines 141-146: the matching loop is over
match_done ==
  /\ pc = "match"
  /\ idx > Len(sync_pairs)
  /\ pairs_need_update' = Positions(sync_pairs, "NEEDS_UPDATE")
  /\ candidates' = <<>>
  /\ pc' = "sync"
  /\ idx' = 1
  /\ UNCHANGED <<dry_run, library, library0, playlists, playlists0, sync_pairs,
                 pairs_conflicting, matched, returned, calls, answer, retries,
                 raised>>

\* the update_rating calls of one step reach the players
Perform(cs) ==
  /\ calls' = calls \o cs
  /\ library' = update_ratings(library, cs, dry_run)

\* sync_tracks, lines 147-148: pair.sync() for the next pair that needs it
sync_pair ==
  /\ pc = "sync"
  /\ idx <= Len(pairs_need_update)
  /\ Perform(sync(sync_pairs[pairs_need_update[idx]], FALSE).calls)
  /\ idx' = idx + 1
  /\ UNCHANGED <<candidates, dry_run, library0, playlists, playlists0, sync_pairs,
                 pairs_need_update, pairs_conflicting, matched, pc, returned,
                 answer, retries, raised>>

\* sync_tracks, lines 150-153
sync_done ==
  /\ pc = "sync"
  /\ idx > Len(pairs_need_update)
  /\ pairs_conflicting' = Positions(sync_pairs, "CONFLICTING")
  /\ pc' = "menu"
  /\ idx' = 1
  /\ UNCHANGED <<candidates, dry_run, library, library0, playlists, playlists0, sync_pairs,
                 pairs_need_update, matched, returned, calls, answer, retries,
                 raised>>

\* sync_tracks, lines 154-156: nothing conflicts, the while loop ends
no_conflicts ==
  /\ pc = "menu"
  /\ Len(pairs_conflicting) = 0
  /\ pc' = "done"
  /\ UNCHANGED <<candidates, dry_run, library, library0, playlists, playlists0, sync_pairs,
                 pairs_need_update, pairs_conflicting, matched, idx, returned,
                 calls, answer, retries, raised>>

\* sync_tracks, lines 157-195: one answer to the batch prompt
menu(choice) ==
  /\ pc = "menu"
  /\ Len(pairs_conflicting) > 0
  /\ answer' = [choice |-> choice, new_rating |-> {}]
  /\ CASE choice = "1" -> pc' = "batch1" /\ UNCHANGED retries
       [] choice = "2" -> pc' = "batch2" /\ UNCHANGED retries
       [] choice = "3" -> pc' = "resolve" /\ UNCHANGED retries
       [] choice = "5" -> pc' = "done" /\ UNCHANGED retries
       [] OTHER -> /\ retries < MaxRetries
                   /\ retries' = retries + 1
                   /\ UNCHANGED pc
  /\ idx' = 1
  /\ UNCHANGED <<candidates, dry_run, library, library0, playlists, playlists0, sync_pairs,
                 pairs_need_update, pairs_conflicting, matched, returned, calls,
                 raised>>

menu_keep_source == menu("1")
menu_keep_destination == menu("2")
menu_choose_each == menu("3")
menu_display == menu("4")
menu_dont_resolve == menu("5")
menu_invalid == menu("x")

\* sync_tracks, lines 168-170: pair.sync(force=True) for the next conflict
batch_keep_source ==
  /\ pc = "batch1"
  /\ idx <= Len(pairs_conflicting)
  /\ Perform(sync(sync_pairs[pairs_conflicting[idx]], TRUE).calls)
  /\ idx' = idx + 1
  /\ UNCHANGED <<candidates, dry_run, library0, playlists, playlists0, sync_pairs,
                 pairs_need_update, pairs_conflicting, matched, pc, returned,
                 answer, retries, raised>>

\* sync_tracks, lines 172-181: swap the roles in place, then sync(force=True)
batch_keep_destination ==
  /\ pc = "batch2"
  /\ idx <= Len(pairs_conflicting)
  /\ LET k == pairs_conflicting[idx]
         swapped == swap_roles(sync_pairs[k])
     IN  /\ sync_pairs' = [sync_pairs EXCEPT ![k] = swapped]
         /\ Perform(sync(swapped, TRUE).calls)
  /\ idx' = idx + 1
  /\ UNCHANGED <<candidates, dry_run, library0, playlists, playlists0, pairs_need_update,
                 pairs_conflicting, matched, pc, returned, answer, retries,
                 raised>>

\* sync_tracks, lines 183-186: one answer to the prompt of resolve_conflict()
\* for the next conflict
resolve(choice) ==
  /\ pc = "resolve"
  /\ idx <= Len(pairs_conflicting)
  /\ \E new_rating \in IF choice = "3" THEN {{}, {-1}, {0}, {7}, {10}, {11}} ELSE {{}} :
       LET r == resolve_conflict(sync_pairs[pairs_conflicting[idx]], choice, new_rating)
       IN  /\ answer' = [choice |-> choice, new_rating |-> new_rating]
           /\ Perform(r.calls)
           /\ CASE r.ret = "True" -> idx' = idx + 1 /\ UNCHANGED <<pc, retries>>
                [] r.ret = "False" -> pc' = "done" /\ UNCHANGED <<idx, retries>>
                [] OTHER -> /\ retries < MaxRetries
                            /\ retries' = retries + 1
                            /\ UNCHANGED <<pc, idx>>
  /\ UNCHANGED <<candidates, dry_run, library0, playlists, playlists0, sync_pairs,
                 pairs_need_update, pairs_conflicting, matched, returned, raised>>

resolve_keep_source == resolve("1")
resolve_keep_destination == resolve("2")
resolve_new_rating == resolve("3")
resolve_skip == resolve("4")
resolve_cancel == resolve("5")
resolve_invalid == resolve("x")

\* the for loop of the chosen resolution is over, and with it the while loop
conflicts_done ==
  /\ pc \in {"batch1", "batch2", "resolve"}
  /\ idx > Len(pairs_conflicting)
  /\ pc' = "done"
  /\ UNCHANGED <<candidates, dry_run, library, library0, playlists, playlists0, sync_pairs,
                 pairs_need_update, pairs_conflicting, matched, idx, returned,
                 calls, answer, retries, raised>>

\* the playlists MediaMonkey.read_playlists returns: one that exists on the
\* destination, one that does not, and an auto-generated one
LocalPlaylists ==
  {[name |-> "L", tracks |-> <<"m1">>, is_auto_playlist |-> FALSE],
   [name |-> "N", tracks |-> <<"m1", "m2">>, is_auto_playlist |-> FALSE],
   [name |-> "A", tracks |-> <<"m2">>, is_auto_playlist |-> TRUE]}

\* PlexPlayer.find_playlist(title=...): the playlist of that name, {} (None)
\* when the server has none
find_playlist(pls, name) == IF name \in DOMAIN pls THEN pls[name] ELSE {}

\* PlexPlayer.update_playlist(playlist, track, present): the playlists of the
\* server after the call
update_playlist(pls, name, trk, present, dry) ==
  IF dry
    THEN pls
    ELSE [pls EXCEPT ![name] = {IF present THEN pl \cup {trk} ELSE pl \ {trk} :
                                  pl \in pls[name]}]

sync_playlistsRemoving ==
  /\ pc \in {"start", "done"}
  /\ pc' = "crashed"
  /\ raised' = "AttributeError"
  /\ playlists' = update_playlist(playlists, "L", "p1", FALSE, dry_run)
  /\ UNCHANGED <<candidates, dry_run, library, library0, playlists0, sync_pairs,
                 pairs_need_update, pairs_conflicting, matched, idx, returned,
                 calls, answer, retries>>

\* sync_playlists, lines 198-200: self.local_player is not an attribute of
\* PlexSync, so the call ends with an AttributeError before anything is read
sync_playlists ==
  /\ pc \in {"start", "done"}
  /\ pc' = "crashed"
  /\ raised' = "AttributeError"
  /\ UNCHANGED <<candidates, dry_run, library, library0, playlists, playlists0, sync_pairs,
                 pairs_need_update, pairs_conflicting, matched, idx, returned,
                 calls, answer, retries>>

Next ==
  \/ search_tracks
  \/ match_pair
  \/ match_done
  \/ sync_pair
  \/ sync_done
  \/ no_conflicts
  \/ menu_keep_source
  \/ menu_keep_destination
  \/ menu_choose_each
  \/ menu_display
  \/ menu_dont_resolve
  \/ menu_invalid
  \/ batch_keep_source
  \/ batch_keep_destination
  \/ resolve_keep_source
  \/ resolve_keep_destination
  \/ resolve_new_rating
  \/ resolve_skip
  \/ resolve_cancel
  \/ resolve_invalid
  \/ conflicts_done
  \/ sync_playlists

Spec == Init /\ [][Next]_vars

\* sync_tracks from line 136 on, for any list of pairs built with
\* TrackPair(source_player, destination_player, source_track): the
\* constructor takes any source_track, None included.
InitPairs ==
  /\ dry_run \in BOOLEAN
  /\ library \in {[p \in {MediaMonkeyName, PlexPlayerName} |->
                      IF p = MediaMonkeyName THEN mm ELSE px] :
                   mm \in [MMTracks -> MMNativeRatings],
                   px \in [PlexTracks -> PlexNativeRatings]}
  /\ library0 = library
  /\ playlists = [t \in PlaylistTitles |-> {{"p1"}}]
  /\ playlists0 = playlists
  /\ \E src \in DistinctSeqs(MMTracks \cup {NoTrack.ID}, MaxPairs) :
       sync_pairs = [k \in 1..Len(src) |->
                       TrackPair(MediaMonkeyName, PlexPlayerName,
                                 IF src[k] = NoTrack.ID
                                   THEN NoTrack
                                   ELSE read_track_metadata(src[k],
                                          library[MediaMonkeyName][src[k]]))]
  /\ pairs_need_update = <<>>
  /\ pairs_conflicting = <<>>
  /\ matched = 0
  /\ pc = "match"
  /\ idx = 1
  /\ candidates = <<>>
  /\ returned = <<>>
  /\ calls = <<>>
  /\ answer = NoAnswer
  /\ retries = 0
  /\ raised = "none"

NextPairs ==
  \/ match_pair
  \/ match_done
  \/ sync_pair
  \/ sync_done
  \/ no_conflicts
  \/ menu_keep_source
  \/ menu_keep_destination
  \/ menu_choose_each
  \/ menu_display
  \/ menu_dont_resolve
  \/ menu_invalid
  \/ batch_keep_source
  \/ batch_keep_destination
  \/ resolve_keep_source
  \/ resolve_keep_destination
  \/ resolve_new_rating
  \/ resolve_skip
  \/ resolve_cancel
  \/ resolve_invalid
  \/ conflicts_done
  \/ sync_playlists

PairsSpec == InitPairs /\ [][NextPairs]_vars

\* ------------------------------------------------------------ properties
\* the pair the last match() call worked on, with `candidates` its input
JustMatched == pc = "match" /\ idx > 1
MatchRaised == pc = "crashed" /\ raised \in {"RuntimeError", "TypeError"}

LastPair == sync_pairs[idx - 1]
LastScores == Scores(LastPair, candidates)
MaxScore(scores) == CHOOSE m \in {scores[k] : k \in DOMAIN scores} :
                      \A k \in DOMAIN scores : scores[k] <= m

\* the state the classification rule gives to two normalized ratings
StateOfRatings(rs, rd) ==
  IF rs = rd THEN "UP_TO_DATE"
  ELSE IF (rs = 0) # (rd = 0) THEN "NEEDS_UPDATE"
  ELSE "CONFLICTING"

C2_BelowThresholdNeverAccepted ==
  (JustMatched /\ Len(candidates) > 0
     /\ \A k \in DOMAIN LastScores : LastScores[k] < 4 * MatchThreshold)
  => /\ LastPair.destination = NoTrack
     /\ LastPair.sync_state = "ERROR"

C2_Witness ==
  /\ JustMatched
  /\ Len(candidates) = 2
  /\ \A k \in DOMAIN LastScores : LastScores[k] < 4 * MatchThreshold
  /\ \E k \in DOMAIN LastScores : LastScores[k] > 0
  /\ LastPair.sync_state = "ERROR"

\* C3: a match() call with an empty candidate list returns 0 without raising
\* and changes nothing of the pair but its state, which becomes ERROR: the
\* destination stays absent and both ratings are as they were.
C3_EmptyCandidates ==
  [][(pc = "match" /\ idx <= Len(sync_pairs) /\ candidates' = <<>>)
       => /\ sync_pairs' = [sync_pairs EXCEPT ![idx] =
                              [sync_pairs[idx] EXCEPT !.sync_state = "ERROR"]]
          /\ sync_pairs'[idx].destination = NoTrack
          /\ returned' = Append(returned, 0)
          /\ pc' = "match"
          /\ raised' = "none"]_vars

C3_Witness ==
  /\ JustMatched
  /\ candidates = <<>>
  /\ LastPair.sync_state = "ERROR"
  /\ returned[idx - 1] = 0

\* C4: once the NEEDS_UPDATE pairs have been synced (and the run is not a dry
\* run), the nonzero rating of each such pair is present on both sides:
\* on the source track in the source library and on the destination track in
\* the destination library.
C4_NonzeroRatingOnBothSides ==
  (pc = "menu" /\ ~dry_run) =>
    \A k \in DOMAIN sync_pairs :
      sync_pairs[k].sync_state = "NEEDS_UPDATE" =>
        LET pair == sync_pairs[k]
            nonzero == Max(pair.rating_source, pair.rating_destination)
        IN  /\ library[MediaMonkeyName][pair.source.ID]
                 = get_native_rating(MediaMonkeyName, nonzero)
            /\ library[PlexPlayerName][pair.destination.ID]
                 = {get_native_rating(PlexPlayerName, nonzero)}

\* C5: once a pair's sync_state is not UNKNOWN, no step of the run changes it.
C5_SyncStateTerminal ==
  [][\A k \in DOMAIN sync_pairs :
       sync_pairs[k].sync_state # "UNKNOWN" =>
         /\ k \in DOMAIN sync_pairs'
         /\ sync_pairs'[k].sync_state = sync_pairs[k].sync_state]_vars

C5_Witness ==
  /\ pc = "done"
  /\ \E k \in DOMAIN sync_pairs :
       /\ sync_pairs[k].sync_state = "CONFLICTING"
       /\ sync_pairs[k].source_player = PlexPlayerName
  /\ Len(calls) > 0

\* C6: in a dry run no rating stored by either player and no playlist ever
\* differs from what it was at the start of the run.
C6_DryRunChangesNothing ==
  dry_run => (library = library0 /\ playlists = playlists0)

C6_Witness ==
  /\ dry_run
  /\ pc = "done"
  /\ \E i \in DOMAIN calls : calls[i].player = MediaMonkeyName
  /\ \E i \in DOMAIN calls : calls[i].player = PlexPlayerName

\* what a write of rating to the track of player leaves in the libraries
Written(lib, player, id, rating) ==
  [lib EXCEPT ![player][id] =
     IF player = MediaMonkeyName
       THEN get_native_rating(MediaMonkeyName, rating)
       ELSE {get_native_rating(PlexPlayerName, rating)}]

ConflictPair == sync_pairs[pairs_conflicting[idx]]

\* the step keeps the source's rating of the current conflict
KeepSourceStep ==
  /\ idx <= Len(pairs_conflicting)
  /\ idx' = idx + 1
  /\ \/ pc = "batch1"
     \/ pc = "resolve" /\ answer'.choice = "1"

\* the step keeps the destination's rating of the current conflict
KeepDestinationStep ==
  /\ idx <= Len(pairs_conflicting)
  /\ idx' = idx + 1
  /\ \/ pc = "batch2"
     \/ pc = "resolve" /\ answer'.choice = "2"

\* C7: a forced resolution makes exactly one update_rating call.  Keeping the
\* source writes the source's rating to the destination track on the
\* destination player, whatever that track's rating, and leaves the source
\* library alone; keeping the destination writes the (original) destination's
\* rating to the (original) source track on the source player and leaves the
\* destination library alone.
C7_ForcedWriteOneSide ==
  [][/\ KeepSourceStep =>
          /\ calls' = Append(calls, Call(ConflictPair.destination_player,
                                         ConflictPair.destination,
                                         ConflictPair.rating_source))
          /\ ConflictPair.destination_player = PlexPlayerName
          /\ library'[MediaMonkeyName] = library[MediaMonkeyName]
          /\ ~dry_run => library' = Written(library, PlexPlayerName,
                                            ConflictPair.destination.ID,
                                            ConflictPair.rating_source)
     /\ KeepDestinationStep =>
          /\ calls' = Append(calls, Call(ConflictPair.source_player,
                                         ConflictPair.source,
                                         ConflictPair.rating_destination))
          /\ ConflictPair.source_player = MediaMonkeyName
          /\ library'[PlexPlayerName] = library[PlexPlayerName]
          /\ ~dry_run => library' = Written(library, MediaMonkeyName,
                                            ConflictPair.source.ID,
                                            ConflictPair.rating_destination)]_vars

C7_Witness ==
  /\ pc = "batch2"
  /\ idx > 1
  /\ ~dry_run
  /\ Len(calls) > 0
  /\ calls[Len(calls)].player = MediaMonkeyName
  /\ library[MediaMonkeyName] # library0[MediaMonkeyName]

\* the step answers "3" (new rating) for the current conflict
NewRatingStep ==
  /\ pc = "resolve"
  /\ idx <= Len(pairs_conflicting)
  /\ answer'.choice = "3"
  /\ idx' # idx \/ retries' # retries

\* C8: an entered rating is accepted only if it is an integer n in 0..10;
\* then n/10 is written to the destination and to the source and the
\* resolution goes on to the next pair.  Any other entry writes nothing and
\* the same pair is prompted again.
C8_NewRatingValidated ==
  [][NewRatingStep =>
       IF \E n \in answer'.new_rating : 0 <= n /\ n <= 10
         THEN \E n \in answer'.new_rating :
                /\ calls' = calls \o <<Call(ConflictPair.destination_player,
                                            ConflictPair.destination, n),
                                       Call(ConflictPair.source_player,
                                            ConflictPair.source, n)>>
                /\ ~dry_run =>
                     library' = Written(Written(library, PlexPlayerName,
                                                ConflictPair.destination.ID, n),
                                        MediaMonkeyName, ConflictPair.source.ID, n)
                /\ idx' = idx + 1
                /\ pc' = "resolve"
         ELSE /\ calls' = calls
              /\ library' = library
              /\ idx' = idx
              /\ pc' = "resolve"
              /\ retries' = retries + 1]_vars

C8_Witness ==
  /\ pc = "resolve"
  /\ idx > 1
  /\ ~dry_run
  /\ answer = [choice |-> "3", new_rating |-> {7}]
  /\ retries > 0
  /\ Len(calls) >= 2
  /\ calls[Len(calls)].rating = 7
  /\ calls[Len(calls) - 1].rating = 7
  /\ calls[Len(calls)].player = MediaMonkeyName
  /\ calls[Len(calls) - 1].player = PlexPlayerName

\* C9: "cancel all" ends the conflict resolution at once, with no write; once
\* sync_tracks is over nothing is written or prompted any more; "skip" writes
\* nothing and the resolution goes on with the next conflicting pair.
C9_CancelStopsSkipContinues ==
  [][/\ (pc = "resolve" /\ idx <= Len(pairs_conflicting) /\ answer'.choice = "5")
          => (pc' = "done" /\ calls' = calls /\ library' = library)
     /\ pc \in {"done", "crashed"}
          => /\ pc' \in {"done", "crashed"}
             /\ calls' = calls
             /\ library' = library
             /\ answer' = answer
             /\ retries' = retries
     /\ (pc = "resolve" /\ idx <= Len(pairs_conflicting) /\ answer'.choice = "4")
          => /\ calls' = calls
             /\ library' = library
             /\ pc' = "resolve"
             /\ idx' = idx + 1]_vars

C9_Witness ==
  /\ pc = "done"
  /\ answer.choice = "5"
  /\ Len(pairs_conflicting) = 2
  /\ idx = 1
  /\ calls = <<>>

\* the first position of a maximal score
FirstMax(scores) ==
  CHOOSE k \in DOMAIN scores :
    /\ \A j \in DOMAIN scores : scores[j] <= scores[k]
    /\ \A j \in DOMAIN scores : j < k => scores[j] < scores[k]

C11_MissingRatingIsZero ==
  /\ raised # "TypeError"
  /\ \A k \in DOMAIN sync_pairs :
       /\ sync_pairs[k].rating_source \in 0..10
       /\ sync_pairs[k].rating_destination \in 0..10
       /\ (sync_pairs[k].destination # NoTrack /\ sync_pairs[k].destination.rating = {})
            => sync_pairs[k].rating_destination = 0

\* C12: every track the source's search_tracks returns to sync_tracks, and so
\* the source of every pair that is matched, has a rating greater than zero.
C12_SourceTracksRated ==
  pc = "match" =>
    \A k \in DOMAIN sync_pairs :
      sync_pairs[k].source # NoTrack =>
        /\ sync_pairs[k].source.rating # {}
        /\ \A r \in sync_pairs[k].source.rating : r > 0

SyncPlaylistsEnded == pc = "crashed" /\ raised = "AttributeError"

C15_FindOrCreateCompletes ==
  /\ raised # "AttributeError"
  /\ (SyncPlaylistsEnded /\ ~dry_run) =>
       \A pl \in LocalPlaylists :
         IF pl.is_auto_playlist
           THEN find_playlist(playlists, pl.name) = find_playlist(playlists0, pl.name)
           ELSE find_playlist(playlists, pl.name) # {}

\* C16: in similarity() the track-number sub-score is 100 exactly when the
\* source and the candidate both have a track number and the two are equal,
\* and 0 when either is absent or they differ; the overall score is the mean
\* of the four sub-scores, so it lies in [0, 100] (the sum in 0..400).
C16_TrackNumberScore ==
  JustMatched =>
    \A k \in DOMAIN candidates :
      LET s == track(LastPair.source.ID)
          c == track(candidates[k].ID)
      IN  /\ track_score(LastPair, candidates[k]) =
               (IF s # {} /\ c # {} /\ s = c THEN 100 ELSE 0)
          /\ similarity(LastPair, candidates[k]) \in 0..400

\* the pair the loops of lines 147-148, 168-186 are working on
CurrentPair ==
  IF pc = "sync" THEN pairs_need_update[idx] ELSE pairs_conflicting[idx]

\* C17: every update_rating call of sync_tracks is made for a pair whose state
\* is NEEDS_UPDATE or CONFLICTING and names a track of that pair; a pair in
\* ERROR is never changed again and never the subject of a call, and match()
\* only runs on a pair that has not been matched yet.
C17_WritesOnlyForUpdateOrConflict ==
  [][/\ calls' # calls =>
          /\ pc \in {"sync", "batch1", "batch2", "resolve"}
          /\ sync_pairs[CurrentPair].sync_state \in {"NEEDS_UPDATE", "CONFLICTING"}
          /\ \A j \in (Len(calls) + 1)..Len(calls') :
               /\ calls'[j].track \in {sync_pairs'[CurrentPair].source.ID,
                                       sync_pairs'[CurrentPair].destination.ID}
               /\ \A e \in DOMAIN sync_pairs :
                    sync_pairs[e].sync_state = "ERROR" =>
                      calls'[j].track \notin {sync_pairs[e].source.ID,
                                              sync_pairs[e].destination.ID}
     /\ \A e \in DOMAIN sync_pairs :
          sync_pairs[e].sync_state = "ERROR" =>
            e \in DOMAIN sync_pairs' /\ sync_pairs'[e] = sync_pairs[e]
     /\ returned' # returned => sync_pairs[idx].sync_state = "UNKNOWN"
    ]_vars

\* a finished run with a pair in ERROR whose best candidate scored above zero
\* and rating calls made for another, conflicting pair
C17_Witness ==
  /\ pc = "done"
  /\ Len(calls) > 0
  /\ \E e \in DOMAIN sync_pairs :
       sync_pairs[e].sync_state = "ERROR" /\ returned[e] > 0
  /\ \E k \in DOMAIN sync_pairs : sync_pairs[k].sync_state = "CONFLICTING"

\* the pairs for which match() accepted a destination
Accepted == {k \in DOMAIN sync_pairs : sync_pairs[k].destination # NoTrack}

====
